---- MODULE Spec2Model ----
(***************************************************************************)
(* Model of the IrisE01Processor module (hook handler, path resolver,      *)
(* output directory builder, script launcher) and of the CSV timeline      *)
(* importer command line tool.                                             *)
(*                                                                         *)
(* Text values are sequences of one-character strings, so that the shell   *)
(* word splitting of the extra arguments is computed character by          *)
(* character.  Python's None is the value None below; an integer that is   *)
(* None is NoneId.                                                         *)
(***************************************************************************)
EXTENDS Integers, Sequences, FiniteSets, TLC

VARIABLES
    pc,              \* position of the running operation
    store,           \* the DataStoreFile table
    conf,            \* configuration read at the call (local conf)
    hook_name,       \* argument hook_name
    data,            \* argument data
    script_path,     \* local script_path
    extra_args_raw,  \* local extra_args_raw
    log_debug,       \* local log_debug
    evidences,       \* local evidences (the recognised items)
    idx,             \* position of the for loop in evidences
    outcomes,        \* per visited evidence: what the loop body did
    queries,         \* DataStoreFile queries performed
    mkdirs,          \* directories created through build_upload_path
    launches,        \* subprocess.Popen calls attempted
    log,             \* self.log records
    result,          \* the InterfaceStatus returned
    call,            \* arguments of a direct call of a helper / of main
    ret,             \* what a direct call of a helper / main returned
    reads,           \* CLI: read_text calls on the CSV file
    posts,           \* CLI: requests.post calls
    stdout,          \* CLI: lines printed to standard output
    stderr,          \* CLI: lines printed to standard error
    exit_status      \* CLI: exit status of the script, NoneId while it runs

vars == <<pc, store, conf, hook_name, data, script_path, extra_args_raw,
          log_debug, evidences, idx, outcomes, queries, mkdirs, launches,
          log, result, call, ret, reads, posts, stdout, stderr, exit_status>>

hookVars == <<pc, conf, hook_name, data, script_path, extra_args_raw,
              log_debug, evidences, idx, outcomes, mkdirs, result>>

cliVars == <<reads, posts, stdout, stderr, exit_status>>

----------------------------------------------------------------------------
(* Bounds of the model *)

\* longest extra-arguments string given to the launcher directly
MaxLen == 3
\* longest payload list given to hooks_handler
MaxItems == 2
\* most DataStoreFile records in the store when the resolver is called directly
MaxStore == 2
\* addition times range over 1..MaxDate
MaxDate == 2

----------------------------------------------------------------------------
(* Values *)

None == <<"None">>
NoneId == -1
NonString == <<"<int>">>

Falsy(x) == x = None \/ x = <<>>

FalsyId(n) == n = NoneId \/ n = 0

Digit(d) == CASE d = 0 -> "0" [] d = 1 -> "1" [] d = 2 -> "2" [] d = 3 -> "3"
              [] d = 4 -> "4" [] d = 5 -> "5" [] d = 6 -> "6" [] d = 7 -> "7"
              [] d = 8 -> "8" [] OTHER -> "9"

RECURSIVE Decimal(_)
Decimal(n) == IF n < 10 THEN <<Digit(n)>> ELSE Decimal(n \div 10) \o <<Digit(n % 10)>>

\* str(x) of an optional integer
Str(n) == IF n = NoneId THEN <<"N", "o", "n", "e">> ELSE Decimal(n)

LogRec(level, msg) == [level |-> level, msg |-> msg]

----------------------------------------------------------------------------
(* shlex.split(s): POSIX mode, whitespace_split, no comment characters *)

Chars == {"a", " ", "'", "\"", "\\"}

whitespace == {" "}
quotes == {"'", "\""}
escape == {"\\"}
escapedquotes == {"\""}

RECURSIVE Lex(_, _, _, _, _, _, _)
Lex(s, i, st, esc, tok, quoted, out) ==
    IF i > Len(s)
    THEN \* end of input
         IF st \in quotes THEN [err |-> "ValueError", tokens |-> <<>>]
         ELSE IF st \in escape THEN [err |-> "ValueError", tokens |-> <<>>]
         ELSE IF tok # <<>> \/ quoted THEN [err |-> "none", tokens |-> Append(out, tok)]
         ELSE [err |-> "none", tokens |-> out]
    ELSE LET c == s[i] IN
         IF st = " " THEN
             IF c \in whitespace THEN Lex(s, i + 1, " ", esc, tok, quoted, out)
             ELSE IF c \in escape THEN Lex(s, i + 1, c, "a", tok, quoted, out)
             ELSE IF c \in quotes THEN Lex(s, i + 1, c, esc, tok, quoted, out)
             ELSE Lex(s, i + 1, "a", esc, <<c>>, quoted, out)
         ELSE IF st \in quotes THEN
             IF c = st THEN Lex(s, i + 1, "a", esc, tok, TRUE, out)
             ELSE IF c \in escape /\ st \in escapedquotes
                  THEN Lex(s, i + 1, c, st, tok, TRUE, out)
             ELSE Lex(s, i + 1, st, esc, Append(tok, c), TRUE, out)
         ELSE IF st \in escape THEN
             LET kept == IF esc \in quotes /\ c # st /\ c # esc
                         THEN Append(tok, st) ELSE tok
             IN Lex(s, i + 1, esc, esc, Append(kept, c), quoted, out)
         ELSE \* st = "a": inside a word
             IF c \in whitespace THEN
                 IF tok # <<>> \/ quoted
                 THEN Lex(s, i + 1, " ", " ", <<>>, FALSE, Append(out, tok))
                 ELSE Lex(s, i + 1, " ", esc, tok, quoted, out)
             ELSE IF c \in quotes THEN Lex(s, i + 1, c, esc, tok, quoted, out)
             ELSE IF c \in escape THEN Lex(s, i + 1, c, "a", tok, quoted, out)
             ELSE Lex(s, i + 1, "a", esc, Append(tok, c), quoted, out)

shlex_split(s) ==
    IF s = NonString THEN [err |-> "AttributeError", tokens |-> <<>>]
    ELSE Lex(s, 1, " ", " ", <<>>, FALSE, <<>>)

----------------------------------------------------------------------------
(* Script launcher *)

module_name == <<"iris_e01_processor">>

ScriptStates == {"executable", "missing", "not_executable"}

\* what the launcher finds on the machine when it spawns the child
FsStates == [script : ScriptStates, cwd_exists : BOOLEAN, spawn_fails : BOOLEAN]

\* subprocess.Popen(args, cwd=cwd): the exception it raises, or "none"
Popen(cwd, fs) ==
    IF fs.spawn_fails THEN "OSError"
    ELSE IF cwd # None /\ ~fs.cwd_exists THEN "FileNotFoundError"
    ELSE IF fs.script = "missing" THEN "FileNotFoundError"
    ELSE IF fs.script = "not_executable" THEN "PermissionError"
    ELSE "none"

\* the log record written for a failed spawn
spawn_failure_log(exc) ==
    IF exc = "none" THEN <<>>
    ELSE IF exc = "FileNotFoundError"
    THEN <<LogRec("error", "script not found or not executable")>>
    ELSE <<LogRec("exception", "failed to launch script")>>

\* shlex.split(extra_args_raw) under "if extra_args_raw:"
split_extra(extra_raw) ==
    IF extra_raw = <<>> THEN [err |-> "none", tokens |-> <<>>] ELSE shlex_split(extra_raw)

\* a launcher that passes the raw string as one argument when it cannot split it
extra_args_raw_on_error(extra_raw) ==
    IF split_extra(extra_raw).err = "none" THEN split_extra(extra_raw).tokens
    ELSE <<extra_raw>>

\* extra_args after the try/except ValueError around shlex.split
extra_args_of(extra_raw) ==
    IF split_extra(extra_raw).err = "none" THEN split_extra(extra_raw).tokens ELSE <<>>

\* args = [script_path, e01_path]; args.extend(extra_args)
launch_argv(spath, e01_path, extra_args) == <<spath, e01_path>> \o extra_args

\* _launch_processing_script: the record holds whether it raised to its
\* caller, the Popen call it made (none when it raised before) and its logs
launch_processing_script(spath, extra_raw, evidence, e01_path, output_dir, uploaded_path, fs) ==
    LET split == split_extra(extra_raw)
    IN IF split.err = "AttributeError"
       THEN [raised |-> TRUE, popen |-> <<>>, logs |-> <<>>]
       ELSE
       LET parseLog == IF split.err = "ValueError"
                       THEN <<LogRec("error", "failed to parse e01_script_extra_args")>>
                       ELSE <<>>
           args == launch_argv(spath, e01_path, extra_args_of(extra_raw))
           env == [IRIS_CASE_ID |-> Str(evidence.case_id),
                   IRIS_EVIDENCE_ID |-> Str(evidence.id),
                   IRIS_E01_PATH |-> e01_path,
                   IRIS_E01_OUTPUT_DIR |-> IF Falsy(output_dir) THEN <<>> ELSE output_dir,
                   IRIS_MODULE_NAME |-> module_name]
           cwd == IF Falsy(output_dir) THEN uploaded_path ELSE output_dir
           exc == Popen(cwd, fs)
       IN [raised |-> FALSE,
           popen |-> <<[args |-> args, env |-> env, cwd |-> cwd,
                        started |-> exc = "none"]>>,
           logs |-> parseLog \o spawn_failure_log(exc)]

----------------------------------------------------------------------------
(* Path resolver *)

H1 == <<"h", "1">>
H2 == <<"h", "2">>
P1 == <<"p", "1">>
P2 == <<"p", "2">>

CaseIds == {1, 2}
Hashes == {H1, H2}
LocalNames == {<<>>, P1, P2}

\* DataStoreFile rows
Files == [file_case_id : CaseIds, file_sha256 : Hashes,
          file_date_added : 1..MaxDate, file_local_name : LocalNames]

RECURSIVE StoresUpTo(_)
StoresUpTo(n) ==
    IF n = 0 THEN {{}}
    ELSE LET smaller == StoresUpTo(n - 1)
         IN smaller \cup {s \cup {f} : s \in smaller, f \in Files}

\* the filter of the query: same case, same hash
Matching(evidence, st) ==
    {f \in st : f.file_case_id = evidence.case_id /\ f.file_sha256 = evidence.file_hash}

\* a query ordered by ascending addition time
Earliest(rows) == {f \in rows : \A g \in rows : g.file_date_added >= f.file_date_added}

\* order_by(file_date_added.desc()).first(): a row no other row is later than
First(rows) == {f \in rows : \A g \in rows : g.file_date_added <= f.file_date_added}

\* a resolver that checks the hash alone before it queries
resolve_evidence_path_hash_only(evidence, st, db) ==
    IF Falsy(evidence.file_hash)
    THEN {[raised |-> FALSE, queried |-> FALSE, path |-> None, logs |-> <<>>]}
    ELSE IF db = "error"
    THEN {[raised |-> TRUE, queried |-> TRUE, path |-> None, logs |-> <<>>]}
    ELSE IF Matching(evidence, st) = {}
    THEN {[raised |-> FALSE, queried |-> TRUE, path |-> None,
           logs |-> <<LogRec("warning", "no DataStoreFile found")>>]}
    ELSE {[raised |-> FALSE, queried |-> TRUE, path |-> f.file_local_name, logs |-> <<>>] :
             f \in First(Matching(evidence, st))}

\* _resolve_evidence_path: the set of its possible outcomes (rows added at the
\* same time may come in either order); db = "error" when the query raises
resolve_evidence_path(evidence, st, db) ==
    IF Falsy(evidence.file_hash) \/ FalsyId(evidence.case_id)
    THEN {[raised |-> FALSE, queried |-> FALSE, path |-> None, logs |-> <<>>]}
    ELSE IF db = "error"
    THEN {[raised |-> TRUE, queried |-> TRUE, path |-> None, logs |-> <<>>]}
    ELSE IF Matching(evidence, st) = {}
    THEN {[raised |-> FALSE, queried |-> TRUE, path |-> None,
           logs |-> <<LogRec("warning", "no DataStoreFile found")>>]}
    ELSE {[raised |-> FALSE, queried |-> TRUE, path |-> f.file_local_name, logs |-> <<>>] :
             f \in First(Matching(evidence, st))}

----------------------------------------------------------------------------
(* Output directory builder *)

CUSTOMER == <<"c", "u", "s", "t">>
CASENAME == <<"c", "a", "s", "e">>
UPLOADS == <<"/", "u", "p">>

\* what evidence.case and case.client hold, and whether build_upload_path raises
CaseInfos ==
    {[has_case |-> FALSE, has_client |-> FALSE, customer |-> <<>>, name |-> <<>>, build_fails |-> FALSE],
     [has_case |-> TRUE, has_client |-> FALSE, customer |-> <<>>, name |-> CASENAME, build_fails |-> FALSE],
     [has_case |-> TRUE, has_client |-> TRUE, customer |-> <<>>, name |-> CASENAME, build_fails |-> FALSE],
     [has_case |-> TRUE, has_client |-> TRUE, customer |-> CUSTOMER, name |-> <<>>, build_fails |-> FALSE],
     [has_case |-> TRUE, has_client |-> TRUE, customer |-> CUSTOMER, name |-> CASENAME, build_fails |-> FALSE],
     [has_case |-> TRUE, has_client |-> TRUE, customer |-> CUSTOMER, name |-> CASENAME, build_fails |-> TRUE]}

\* build_upload_path(case_customer, case_name, module, create=True)
build_upload_path(customer, name, module) ==
    UPLOADS \o <<"/">> \o customer \o <<"/">> \o name \o <<"/">> \o module

\* a builder without the check of the two names
compute_output_dir_unchecked(ci) ==
    IF ~ci.has_case \/ ~ci.has_client
    THEN [dir |-> None, mkdir |-> <<>>, logs |-> <<>>]
    ELSE IF ci.build_fails
    THEN [dir |-> None, mkdir |-> <<>>,
          logs |-> <<LogRec("exception", "failed to compute output directory")>>]
    ELSE [dir |-> build_upload_path(ci.customer, ci.name, module_name),
          mkdir |-> <<build_upload_path(ci.customer, ci.name, module_name)>>,
          logs |-> <<>>]

\* _compute_output_dir
compute_output_dir(ci) ==
    LET case_customer == IF ci.has_case /\ ci.has_client THEN ci.customer ELSE None
        case_name == IF ci.has_case THEN ci.name ELSE None
    IN IF Falsy(case_customer) \/ Falsy(case_name)
       THEN [dir |-> None, mkdir |-> <<>>, logs |-> <<>>]
       ELSE IF ci.build_fails
       THEN [dir |-> None, mkdir |-> <<>>,
             logs |-> <<LogRec("exception", "failed to compute output directory")>>]
       ELSE [dir |-> build_upload_path(case_customer, case_name, module_name),
             mkdir |-> <<build_upload_path(case_customer, case_name, module_name)>>,
             logs |-> <<>>]

----------------------------------------------------------------------------
(* Hook handler *)

EVIDENCE_HOOK == <<"on_postload_evidence_create">>
OTHER_HOOK == <<"on_postload_case_create">>
HookNames == {EVIDENCE_HOOK, OTHER_HOOK}

SCRIPT == <<"/", "s">>

\* the module configuration dictionary: a key that is not set is "absent"
\* (flags) or None (text)
ConfSet == [enabled : {"absent", "true", "false"},
            e01_script_path : {None, <<>>, SCRIPT},
            e01_script_extra_args : {None, <<"a">>, NonString},
            log_debug : {"absent", "true"}]

EmptyConf == [enabled |-> "absent", e01_script_path |-> None,
              e01_script_extra_args |-> None, log_debug |-> "absent"]

\* bool(conf.get(key, default))
BoolOpt(v, default) == IF v = "absent" THEN default ELSE v = "true"

\* conf = self.module_dict_conf, or the cached _dict_conf when reading it
\* raises; cached is EmptyConf ({}) when the attribute is missing or empty
load_conf(primary, read_fails, cached) ==
    IF ~read_fails THEN primary ELSE cached

\* the objects a payload can hold: evidence (CaseReceivedFile) rows with or
\* without a case id and a hash, and objects of another class
ItemShapes ==
    [cls : {"CaseReceivedFile"}, case_id : {NoneId, 1}, file_hash : {None, H1}]
    \cup {[cls |-> "other", case_id |-> NoneId, file_hash |-> None]}

Item(shape, id) == [cls |-> shape.cls, id |-> id, case_id |-> shape.case_id,
                    file_hash |-> shape.file_hash]

NoData == [kind |-> "none", items |-> <<>>]

\* the payloads of the hook: a list, a single evidence object, or another object
Payloads ==
    {[kind |-> "list", items |-> [i \in 1..n |-> Item(shapes[i], i)]] :
        n \in {0}, shapes \in {<<>>}}
    \cup UNION {{[kind |-> "list", items |-> [i \in 1..n |-> Item(shapes[i], i)]] :
                    shapes \in [1..n -> ItemShapes]} : n \in 1..MaxItems}
    \cup {[kind |-> "object", items |-> <<Item(s, 1)>>] : s \in ItemShapes}

I2Success(d) == [kind |-> "I2Success", data |-> d, message |-> <<>>]
I2Error(m) == [kind |-> "I2Error", data |-> NoData, message |-> m]
NoResult == [kind |-> "none", data |-> NoData, message |-> <<>>]

RECURSIVE SelectEvidence(_)
SelectEvidence(items) ==
    IF items = <<>> THEN <<>>
    ELSE IF Head(items).cls = "CaseReceivedFile"
    THEN <<Head(items)>> \o SelectEvidence(Tail(items))
    ELSE SelectEvidence(Tail(items))

\* the evidences list built from data
filter_evidences(d) ==
    IF d.kind = "list" THEN SelectEvidence(d.items)
    ELSE IF d.kind = "object" /\ d.items[1].cls = "CaseReceivedFile" THEN d.items
    ELSE <<>>

\* a handler that forgets the enabled switch
passthrough_hook_only(c, hn) == hn # EVIDENCE_HOOK

\* the two early returns that hand the data back before anything is read
passthrough(c, hn) == ~BoolOpt(c.enabled, TRUE) \/ hn # EVIDENCE_HOOK

\* a check that takes an empty script path for a configured one
script_is_none(sp) == sp = None

\* if not script_path
script_not_configured(sp) == Falsy(sp)

\* the value the handler returns after the loop
final_result(d, evs) == I2Success(d)

\* a loop that stops at the first item that raises
stop_after_exception(i, n) == n + 1

\* where the loop goes after the body raised on item i of n
next_after_exception(i, n) == i + 1

\* hooks_handler up to the loop: configuration, early returns, filtering
HooksHandler ==
    /\ pc = "idle"
    /\ \E hn \in HookNames, d \in Payloads, primary \in ConfSet, read_fails \in BOOLEAN :
       \E cached \in {EmptyConf, primary} :
          LET c == load_conf(primary, read_fails, cached)
              sp == c.e01_script_path
              ea == IF Falsy(c.e01_script_extra_args) THEN <<>>
                    ELSE c.e01_script_extra_args
              dbg == BoolOpt(c.log_debug, FALSE)
              evs == filter_evidences(d)
          IN /\ conf' = c
             /\ hook_name' = hn
             /\ data' = d
             /\ IF passthrough(c, hn)
                THEN /\ result' = I2Success(d)
                     /\ pc' = "done"
                     /\ UNCHANGED <<script_path, extra_args_raw, log_debug, evidences, idx, log>>
                ELSE /\ script_path' = sp
                     /\ extra_args_raw' = ea
                     /\ log_debug' = dbg
                     /\ IF script_not_configured(sp)
                        THEN /\ log' = Append(log, LogRec("error", "e01_script_path is not configured"))
                             /\ result' = I2Error(<<"e01_script_path not configured">>)
                             /\ pc' = "done"
                             /\ UNCHANGED <<evidences, idx>>
                        ELSE IF evs = <<>>
                        THEN /\ log' = IF dbg
                                       THEN Append(log, LogRec("debug", "received no CaseReceivedFile instances"))
                                       ELSE log
                             /\ result' = I2Success(d)
                             /\ pc' = "done"
                             /\ UNCHANGED <<evidences, idx>>
                        ELSE /\ evidences' = evs
                             /\ idx' = 1
                             /\ pc' = "loop"
                             /\ UNCHANGED <<log, result>>
    /\ UNCHANGED <<store, outcomes, queries, mkdirs, launches, call, ret>>
    /\ UNCHANGED cliVars

Outcome(ev, status, path) == [id |-> ev.id, status |-> status, path |-> path]

HandlingError == LogRec("exception", "error while handling evidence")

\* one pass of the loop body, for evidences[idx]
LoopBody ==
    /\ pc = "loop"
    /\ idx <= Len(evidences)
    /\ LET ev == evidences[idx] IN
       \E db \in {"ok", "error"} : \E r \in resolve_evidence_path(ev, store, db) :
          /\ queries' = IF r.queried
                        THEN Append(queries, [id |-> ev.id, case_id |-> ev.case_id,
                                              file_hash |-> ev.file_hash])
                        ELSE queries
          /\ IF r.raised
             THEN /\ log' = log \o r.logs \o <<HandlingError>>
                  /\ outcomes' = Append(outcomes, Outcome(ev, "failed", None))
                  /\ idx' = next_after_exception(idx, Len(evidences))
                  /\ UNCHANGED <<mkdirs, launches>>
             ELSE IF Falsy(r.path)
             THEN /\ log' = log \o r.logs \o <<LogRec("warning", "unable to resolve local path")>>
                  /\ outcomes' = Append(outcomes, Outcome(ev, "skipped", r.path))
                  /\ idx' = idx + 1
                  /\ UNCHANGED <<mkdirs, launches>>
             ELSE \E ci \in CaseInfos, fs \in FsStates, up \in {None, UPLOADS} :
                  LET od == compute_output_dir(ci)
                      dbgLog == IF log_debug THEN <<LogRec("debug", "launching script")>> ELSE <<>>
                      l == launch_processing_script(script_path, extra_args_raw, ev,
                                                    r.path, od.dir, up, fs)
                  IN /\ mkdirs' = mkdirs \o od.mkdir
                     /\ launches' = launches \o [i \in 1..Len(l.popen) |->
                                                    [id |-> ev.id, call |-> l.popen[i]]]
                     /\ IF l.raised
                        THEN /\ log' = log \o r.logs \o od.logs \o dbgLog \o l.logs \o <<HandlingError>>
                             /\ outcomes' = Append(outcomes, Outcome(ev, "failed", r.path))
                             /\ idx' = next_after_exception(idx, Len(evidences))
                        ELSE /\ log' = log \o r.logs \o od.logs \o dbgLog \o l.logs
                             /\ outcomes' = Append(outcomes, Outcome(ev, "launched", r.path))
                             /\ idx' = idx + 1
    /\ UNCHANGED <<pc, store, conf, hook_name, data, script_path, extra_args_raw,
                   log_debug, evidences, result, call, ret>>
    /\ UNCHANGED cliVars

\* the return after the loop
HandlerReturn ==
    /\ pc = "loop"
    /\ idx > Len(evidences)
    /\ result' = final_result(data, evidences)
    /\ pc' = "done"
    /\ UNCHANGED <<store, conf, hook_name, data, script_path, extra_args_raw, log_debug,
                   evidences, idx, outcomes, queries, mkdirs, launches, log, call, ret>>
    /\ UNCHANGED cliVars

NoCall == [op |-> "none"]

InitCommon ==
    /\ pc = "idle"
    /\ conf = EmptyConf
    /\ hook_name = <<>>
    /\ data = NoData
    /\ script_path = None
    /\ extra_args_raw = <<>>
    /\ log_debug = FALSE
    /\ evidences = <<>>
    /\ idx = 0
    /\ outcomes = <<>>
    /\ queries = <<>>
    /\ mkdirs = <<>>
    /\ launches = <<>>
    /\ log = <<>>
    /\ result = NoResult
    /\ call = NoCall
    /\ ret = NoCall
    /\ reads = 0
    /\ posts = <<>>
    /\ stdout = <<>>
    /\ stderr = <<>>
    /\ exit_status = NoneId

\* the handler is called with a store that holds at most one file
HookStores == {{}} \cup {{f} : f \in {g \in Files : g.file_date_added = 1}}

Init ==
    /\ InitCommon
    /\ store \in HookStores

Next == HooksHandler \/ LoopBody \/ HandlerReturn

Spec == Init /\ [][Next]_vars

----------------------------------------------------------------------------
(* The path resolver called on its own, over stores of several files *)

EvidenceShapes == {s \in ItemShapes : s.cls = "CaseReceivedFile"}

ResolveCall ==
    /\ call = NoCall
    /\ \E s \in EvidenceShapes, db \in {"ok", "error"} :
       \E r \in resolve_evidence_path(Item(s, 1), store, db) :
          /\ call' = [op |-> "resolve", evidence |-> Item(s, 1), db |-> db]
          /\ ret' = r
          /\ queries' = IF r.queried
                        THEN Append(queries, [id |-> 1, case_id |-> s.case_id,
                                              file_hash |-> s.file_hash])
                        ELSE queries
          /\ log' = log \o r.logs
    /\ UNCHANGED hookVars
    /\ UNCHANGED <<store, launches>>
    /\ UNCHANGED cliVars

InitResolve ==
    /\ InitCommon
    /\ store \in StoresUpTo(MaxStore)

NextResolve == ResolveCall

SpecResolve == InitResolve /\ [][NextResolve]_vars

----------------------------------------------------------------------------
(* The script launcher called on its own, over all short argument strings *)

RECURSIVE StrsUpTo(_)
StrsUpTo(n) ==
    IF n = 0 THEN {<<>>}
    ELSE LET shorter == StrsUpTo(n - 1)
         IN shorter \cup {Append(s, c) : s \in shorter, c \in Chars}

DIR == build_upload_path(CUSTOMER, CASENAME, module_name)

LaunchCall ==
    /\ call = NoCall
    /\ \E extra \in StrsUpTo(MaxLen) \cup {NonString}, od \in {None, DIR},
          up \in {None, UPLOADS}, fs \in FsStates :
          LET ev == Item([cls |-> "CaseReceivedFile", case_id |-> 1, file_hash |-> H1], 1)
              l == launch_processing_script(SCRIPT, extra, ev, P1, od, up, fs)
          IN /\ call' = [op |-> "launch", script_path |-> SCRIPT, extra_args_raw |-> extra,
                         e01_path |-> P1, output_dir |-> od, uploaded_path |-> up, fs |-> fs]
             /\ ret' = [op |-> "launch", raised |-> l.raised]
             /\ launches' = launches \o [i \in 1..Len(l.popen) |-> [id |-> 1, call |-> l.popen[i]]]
             /\ log' = log \o l.logs
    /\ UNCHANGED hookVars
    /\ UNCHANGED <<store, queries>>
    /\ UNCHANGED cliVars

InitLaunch ==
    /\ InitCommon
    /\ store = {}

NextLaunch == LaunchCall

SpecLaunch == InitLaunch /\ [][NextLaunch]_vars

----------------------------------------------------------------------------
(* The loop body after the path resolved, on its own: the output directory  *)
(* is computed and handed to the launcher                                  *)

\* extra_args_raw as the handler reads it from the configuration
HandlerExtraArgs ==
    {IF Falsy(c.e01_script_extra_args) THEN <<>> ELSE c.e01_script_extra_args : c \in ConfSet}

LaunchResolvedCall ==
    /\ call = NoCall
    /\ \E ci \in CaseInfos, extra \in HandlerExtraArgs, up \in {None, UPLOADS},
          fs \in FsStates :
          LET ev == Item([cls |-> "CaseReceivedFile", case_id |-> 1, file_hash |-> H1], 1)
              od == compute_output_dir(ci)
              l == launch_processing_script(SCRIPT, extra, ev, P1, od.dir, up, fs)
          IN /\ call' = [op |-> "launch_resolved", case_info |-> ci, script_path |-> SCRIPT,
                         extra_args_raw |-> extra, e01_path |-> P1,
                         uploaded_path |-> up, fs |-> fs]
             /\ ret' = [op |-> "launch_resolved", raised |-> l.raised]
             /\ mkdirs' = mkdirs \o od.mkdir
             /\ launches' = launches \o [i \in 1..Len(l.popen) |-> [id |-> 1, call |-> l.popen[i]]]
             /\ log' = log \o od.logs \o l.logs
    /\ UNCHANGED <<pc, conf, hook_name, data, script_path, extra_args_raw, log_debug,
                   evidences, idx, outcomes, result>>
    /\ UNCHANGED <<store, queries>>
    /\ UNCHANGED cliVars

InitLaunchResolved ==
    /\ InitCommon
    /\ store = {}

NextLaunchResolved == LaunchResolvedCall

SpecLaunchResolved == InitLaunchResolved /\ [][NextLaunchResolved]_vars

----------------------------------------------------------------------------
(* CSV timeline importer (command line tool) *)

TOKEN == <<"t", "o", "k">>
COOKIE == <<"s", "i", "d">>
CSVTEXT == <<"e", "v">>

\* what the --csv argument names: an existing regular file, nothing, a
\* directory, or a path under the home of a user that does not exist
CsvKinds == {"file", "missing", "directory", "unknown_user"}

Argvs == [parses : BOOLEAN,
          base_url : {<<"u">>, <<"u", "/">>},
          case_id : {1},
          csv : CsvKinds,
          api_token : {None, <<>>, TOKEN},
          cookie : {None, COOKIE},
          no_summary : BOOLEAN, no_graph : BOOLEAN, sync_iocs_assets : BOOLEAN]

Statuses == {200, 204, 304, 400, 404, 500}

\* response bodies: a JSON object with a message, with an empty message,
\* without a message, a JSON array, a JSON null, and text that is not JSON
Bodies == {"object_message", "object_empty_message", "object_no_message",
           "array", "null", "not_json"}

HttpOutcomes == [exc : {"none"}, status : Statuses, body : Bodies]
                \cup [exc : {"ConnectionError", "Timeout"}, status : {0}, body : {"not_json"}]

Returned(code) == [kind |-> "returned", code |-> code, exc |-> "none"]
Raised(exc) == [kind |-> "raised", code |-> NoneId, exc |-> exc]
SystemExit(code) == [kind |-> "SystemExit", code |-> code, exc |-> "SystemExit"]

\* base_url.rstrip('/')
RECURSIVE rstrip_slash(_)
rstrip_slash(s) ==
    IF s # <<>> /\ s[Len(s)] = "/" THEN rstrip_slash(SubSeq(s, 1, Len(s) - 1)) ELSE s

build_url(base_url, case_id) ==
    rstrip_slash(base_url) \o <<"/case/evidences/">> \o Str(case_id)
        \o <<"/../timeline/events/csv_upload">>

build_headers(api_token, cookie) ==
    [Content_Type |-> <<"application/json">>,
     Authorization |-> IF Falsy(api_token) THEN None ELSE <<"Bearer ">> \o api_token,
     Cookie |-> IF Falsy(cookie) THEN None ELSE cookie]

build_payload(a) ==
    [CSVData |-> CSVTEXT,
     CSVOptions |-> [event_sync_iocs_assets |-> a.sync_iocs_assets,
                     event_in_summary |-> ~a.no_summary,
                     event_in_graph |-> ~a.no_graph,
                     event_source |-> <<"E01 timeline">>]]

\* pathlib.Path(args.csv).expanduser().resolve(): "RuntimeError" when the home
\* directory of the named user cannot be determined
resolve_csv_path(kind) == IF kind = "unknown_user" THEN "RuntimeError" ELSE "none"

\* csv_path.is_file()
is_file(kind) == kind = "file"

\* resp.ok
resp_ok(status) == status < 400

\* data = resp.json(), or {"raw": resp.text} when the body is not JSON
is_dict(body) == body \in {"object_message", "object_empty_message", "object_no_message", "not_json"}

\* data.get('message', '') or data
success_detail(body) ==
    IF body = "object_message" THEN <<"o", "k">> ELSE <<"data:", body>>

\* main, up to the call of import_csv
Main ==
    /\ pc = "idle"
    /\ call = NoCall
    /\ \E a \in Argvs :
          /\ call' = [op |-> "main", argv |-> a]
          /\ IF ~a.parses
             THEN /\ stderr' = Append(stderr, <<"usage">>)
                  /\ ret' = SystemExit(2)
                  /\ pc' = "returned"
             ELSE IF resolve_csv_path(a.csv) # "none"
             THEN /\ ret' = Raised(resolve_csv_path(a.csv))
                  /\ pc' = "returned"
                  /\ UNCHANGED stderr
             ELSE IF ~is_file(a.csv)
             THEN /\ stderr' = Append(stderr, <<"CSV file not found">>)
                  /\ ret' = Returned(1)
                  /\ pc' = "returned"
             ELSE /\ pc' = "import_csv"
                  /\ UNCHANGED <<stderr, ret>>
    /\ UNCHANGED <<store, conf, hook_name, data, script_path, extra_args_raw, log_debug,
                   evidences, idx, outcomes, queries, mkdirs, launches, log, result>>
    /\ UNCHANGED <<reads, posts, stdout, exit_status>>

\* import_csv, whose return value main returns
ImportCsv ==
    /\ pc = "import_csv"
    /\ \E read_ok \in BOOLEAN, h \in HttpOutcomes :
          /\ reads' = reads + 1
          /\ pc' = "returned"
          /\ IF ~read_ok
             THEN /\ ret' = Raised("OSError")
                  /\ UNCHANGED <<posts, stdout, stderr>>
             ELSE /\ posts' = Append(posts, [url |-> build_url(call.argv.base_url, call.argv.case_id),
                                             json |-> build_payload(call.argv),
                                             headers |-> build_headers(call.argv.api_token,
                                                                       call.argv.cookie),
                                             timeout |-> 60,
                                             outcome |-> h])
                  /\ IF h.exc # "none"
                     THEN /\ ret' = Raised(h.exc)
                          /\ UNCHANGED <<stdout, stderr>>
                     ELSE IF resp_ok(h.status)
                     THEN IF is_dict(h.body)
                          THEN /\ stdout' = Append(stdout, <<"Import succeeded">> \o success_detail(h.body))
                               /\ ret' = Returned(0)
                               /\ UNCHANGED stderr
                          ELSE /\ ret' = Raised("AttributeError")
                               /\ UNCHANGED <<stdout, stderr>>
                     ELSE /\ stderr' = Append(stderr, <<"Import failed", Str(h.status), h.body>>)
                          /\ ret' = Returned(1)
                          /\ UNCHANGED stdout
    /\ UNCHANGED <<store, conf, hook_name, data, script_path, extra_args_raw, log_debug,
                   evidences, idx, outcomes, queries, mkdirs, launches, log, result, call>>
    /\ UNCHANGED exit_status

\* raise SystemExit(main()): an exception that leaves main ends the script
\* with a traceback on standard error and status 1
ScriptExit ==
    /\ pc = "returned"
    /\ pc' = "exited"
    /\ exit_status' = IF ret.kind = "raised" THEN 1 ELSE ret.code
    /\ stderr' = IF ret.kind = "raised" THEN Append(stderr, <<"Traceback", ret.exc>>) ELSE stderr
    /\ UNCHANGED <<store, conf, hook_name, data, script_path, extra_args_raw, log_debug,
                   evidences, idx, outcomes, queries, mkdirs, launches, log, result, call, ret>>
    /\ UNCHANGED <<reads, posts, stdout>>

InitCLI ==
    /\ InitCommon
    /\ store = {}

NextCLI == Main \/ ImportCsv \/ ScriptExit

SpecCLI == InitCLI /\ [][NextCLI]_vars

----------------------------------------------------------------------------
(* Properties of the hook handler (checked under Spec) *)

\* the loop over the recognised items ran and the handler returned
LoopRan == pc = "done" /\ evidences # <<>>

Lacks(ev) == Falsy(ev.file_hash) \/ FalsyId(ev.case_id)

\* the stored files of the evidence's case and hash
StoredFor(ev) ==
    {f \in store : f.file_case_id = ev.case_id /\ f.file_sha256 = ev.file_hash}

\* the evidence has stored files and each of them has a local path
Resolvable(ev) ==
    /\ ~Lacks(ev)
    /\ StoredFor(ev) # {}
    /\ \A f \in StoredFor(ev) : ~Falsy(f.file_local_name)

QueriedFor(ev) == \E k \in 1..Len(queries) : queries[k].id = ev.id

LaunchedFor(ev) ==
    \E k \in 1..Len(launches) :
        /\ launches[k].id = ev.id
        /\ launches[k].call.args[1] = script_path
        /\ \E f \in StoredFor(ev) : launches[k].call.args[2] = f.file_local_name

NoEffects == queries = <<>> /\ mkdirs = <<>> /\ launches = <<>> /\ outcomes = <<>>

PayloadHasResolvable ==
    \E i \in 1..Len(data.items) :
        data.items[i].cls = "CaseReceivedFile" /\ Resolvable(data.items[i])

\* C1: once the loop has run, the handler returns success with the data it was
\* given, every recognised item was visited, and every item that did not
\* raise was processed: looked up when it has a hash and a case id, and
\* launched when it has stored files with local paths
C1_PartialFailureTolerated ==
    LoopRan =>
        /\ result = I2Success(data)
        /\ Len(outcomes) = Len(evidences)
        /\ \A i \in 1..Len(evidences) :
              /\ outcomes[i].id = evidences[i].id
              /\ outcomes[i].status # "failed" =>
                    /\ ~Lacks(evidences[i]) => QueriedFor(evidences[i])
                    /\ Resolvable(evidences[i]) => LaunchedFor(evidences[i])

\* an item failed and a later item was launched, and the call succeeded
C1_Witness ==
    /\ LoopRan
    /\ result = I2Success(data)
    /\ \E i, j \in 1..Len(outcomes) :
          /\ i < j
          /\ outcomes[i].status = "failed"
          /\ outcomes[j].status = "launched"
          /\ LaunchedFor(evidences[j])

\* C2: when the module is disabled or the hook is not the evidence-creation
\* hook, the handler has returned success with the input and has looked up,
\* created and launched nothing
C2_PassthroughNoEffects ==
    (pc # "idle" /\ (conf.enabled = "false" \/ hook_name # EVIDENCE_HOOK)) =>
        /\ pc = "done"
        /\ result = I2Success(data)
        /\ NoEffects
        /\ log = <<>>

\* disabled, no script path, the evidence hook, and a payload with an item
\* that would have been launched
C2_Witness ==
    /\ pc = "done"
    /\ conf.enabled = "false"
    /\ conf.e01_script_path = None
    /\ hook_name = EVIDENCE_HOOK
    /\ PayloadHasResolvable
    /\ result = I2Success(data)

\* C3: when the module is enabled, the hook is the evidence-creation hook and
\* the script path is absent or empty, the handler has returned an error
\* result with the configuration message and has processed no item
C3_MissingScriptAborts ==
    (/\ pc # "idle"
     /\ conf.enabled # "false"
     /\ hook_name = EVIDENCE_HOOK
     /\ Falsy(conf.e01_script_path)) =>
        /\ pc = "done"
        /\ result = I2Error(<<"e01_script_path not configured">>)
        /\ log = <<LogRec("error", "e01_script_path is not configured")>>
        /\ NoEffects

\* an empty script path and a payload with an item that would have been launched
C3_Witness ==
    /\ pc = "done"
    /\ conf.enabled = "true"
    /\ hook_name = EVIDENCE_HOOK
    /\ conf.e01_script_path = <<>>
    /\ PayloadHasResolvable
    /\ result.kind = "I2Error"

\* C4: an item without a hash or a case id is skipped with no query and no
\* launch; every launch is for an item whose path resolved to a non-empty
\* value; and the items that have both are still looked up
C4_IncompleteItemsSkipped ==
    /\ \A i \in 1..Len(outcomes) :
          Lacks(evidences[i]) =>
              /\ outcomes[i].status = "skipped"
              /\ outcomes[i].path = None
              /\ ~QueriedFor(evidences[i])
              /\ \A k \in 1..Len(launches) : launches[k].id # evidences[i].id
    /\ \A k \in 1..Len(launches) :
          \E i \in 1..Len(outcomes) :
              /\ outcomes[i].id = launches[k].id
              /\ ~Falsy(outcomes[i].path)
              /\ launches[k].call.args[2] = outcomes[i].path
    /\ LoopRan =>
          \A i \in 1..Len(evidences) : ~Lacks(evidences[i]) => QueriedFor(evidences[i])

\* an item without a case id was skipped and a later item was launched
C4_Witness ==
    /\ LoopRan
    /\ \E i, j \in 1..Len(outcomes) :
          /\ i < j
          /\ evidences[i].case_id = NoneId
          /\ ~Falsy(evidences[i].file_hash)
          /\ outcomes[i].status = "skipped"
          /\ outcomes[j].status = "launched"

----------------------------------------------------------------------------
(* Properties of the path resolver (checked under SpecResolve) *)

\* C5: the resolver returns the local path of a stored file of the evidence's
\* case and hash that no other such file is later than, and nothing when
\* there is no such file
C5_LatestMatchingRecord ==
    (call.op = "resolve" /\ ~ret.raised) =>
        IF StoredFor(call.evidence) = {}
        THEN ret.path = None
        ELSE \E f \in StoredFor(call.evidence) :
                /\ \A g \in StoredFor(call.evidence) : g.file_date_added <= f.file_date_added
                /\ ret.path = f.file_local_name

\* two stored files of the same case and hash, added at different times under
\* different paths: the later one's path is returned
C5_Witness ==
    /\ call.op = "resolve"
    /\ ~ret.raised
    /\ \E f, g \in StoredFor(call.evidence) :
          /\ f.file_date_added < g.file_date_added
          /\ f.file_local_name # g.file_local_name
          /\ ~Falsy(g.file_local_name)
          /\ ret.path = g.file_local_name

----------------------------------------------------------------------------
(* Properties of the script launcher (checked under SpecLaunch) *)

ParseError == LogRec("error", "failed to parse e01_script_extra_args")
NotFoundError == LogRec("error", "script not found or not executable")
LaunchError == LogRec("exception", "failed to launch script")

Logged(rec) == \E k \in 1..Len(log) : log[k] = rec

\* C6: for a text extra-arguments value the launcher makes one Popen call;
\* when the value cannot be split it logs an error and the vector is the
\* script path and the file path alone, and otherwise the vector is these two
\* followed by the tokens in order
C6_ArgvFromExtraArgs ==
    (call.op = "launch" /\ call.extra_args_raw # NonString) =>
        /\ ~ret.raised
        /\ Len(launches) = 1
        /\ IF shlex_split(call.extra_args_raw).err = "ValueError"
           THEN /\ launches[1].call.args = <<call.script_path, call.e01_path>>
                /\ Logged(ParseError)
           ELSE /\ launches[1].call.args =
                       <<call.script_path, call.e01_path>> \o shlex_split(call.extra_args_raw).tokens
                /\ ~Logged(ParseError)

\* an unterminated quote: the error is logged and the script is started with
\* the two fixed arguments
C6_Witness ==
    /\ call.op = "launch"
    /\ call.extra_args_raw = <<"a", " ", "'">>
    /\ Logged(ParseError)
    /\ Len(launches) = 1
    /\ launches[1].call.started
    /\ launches[1].call.args = <<SCRIPT, P1>>

\* C7: with the working directory in place, a script that is missing or not
\* executable is logged with the "not found or not executable" message, a
\* spawn that fails for another reason with the other message, and the
\* launcher does not raise in either case
C7_ScriptFailureLoggedDistinctly ==
    (call.op = "launch" /\ call.extra_args_raw # NonString) =>
        LET cwd_ok == launches[1].call.cwd = None \/ call.fs.cwd_exists
        IN /\ ~ret.raised
           /\ (cwd_ok /\ ~call.fs.spawn_fails /\ call.fs.script \in {"missing", "not_executable"}) =>
                  (Logged(NotFoundError) /\ ~Logged(LaunchError))
           /\ (cwd_ok /\ call.fs.spawn_fails) =>
                  (Logged(LaunchError) /\ ~Logged(NotFoundError))

----------------------------------------------------------------------------
(* Properties of the CSV importer (checked under SpecCLI) *)

MainEnded == pc \in {"returned", "exited"} /\ call.op = "main" /\ call.argv.parses

Responded == posts # <<>> /\ posts[1].outcome.exc = "none"

Is2xx(status) == status >= 200 /\ status <= 299

\* C8: for a CSV path that names no existing regular file, main returns 1,
\* has printed to standard error, and has read no file and sent no request
C8_MissingCsvFailsFast ==
    (MainEnded /\ call.argv.csv # "file") =>
        /\ ret = Returned(1)
        /\ stderr # <<>>
        /\ reads = 0
        /\ posts = <<>>

\* C9: main returns 1 for a missing CSV file, for every response whose status
\* is not 2xx and for every request that did not complete; it returns 0 only
\* after a 2xx response; at most one POST is made
C9_ExitCodes ==
    MainEnded =>
        /\ call.argv.csv # "file" => ret = Returned(1)
        /\ (Responded /\ ~Is2xx(posts[1].outcome.status)) => ret = Returned(1)
        /\ (posts # <<>> /\ posts[1].outcome.exc # "none") => ret = Returned(1)
        /\ ret = Returned(0) => (Responded /\ Is2xx(posts[1].outcome.status))
        /\ Len(posts) <= 1

\* C10: after a 2xx response, whatever its body, one success line has been
\* printed (with the message when the body has one) and 0 is returned
C10_SuccessWhateverBody ==
    (MainEnded /\ Responded /\ Is2xx(posts[1].outcome.status)) =>
        /\ ret = Returned(0)
        /\ Len(stdout) = 1
        /\ stdout[1][1] = "Import succeeded"
        /\ posts[1].outcome.body = "object_message" => stdout[1] = <<"Import succeeded", "o", "k">>

----------------------------------------------------------------------------
(* Properties of the output directory handed to the launcher (checked under *)
(* SpecLaunchResolved)                                                      *)

\* the case or its client is absent, a name is empty, or the path
\* construction raises
YieldsNothing(ci) ==
    \/ ~ci.has_case
    \/ ~ci.has_client
    \/ ci.customer = <<>>
    \/ ci.name = <<>>
    \/ ci.build_fails

OutputDirError == LogRec("exception", "failed to compute output directory")

\* C11: for a text extra-arguments value the item is launched whatever the
\* builder yields; when it yields nothing no directory is created, the
\* working directory is the configured uploads root (none, so inherited,
\* when it is not configured) and IRIS_E01_OUTPUT_DIR is empty; when it
\* computes a directory, that directory is created and is both the working
\* directory and the value of IRIS_E01_OUTPUT_DIR
C11_OutputDirFallback ==
    (call.op = "launch_resolved" /\ call.extra_args_raw # NonString) =>
        /\ ~ret.raised
        /\ Len(launches) = 1
        /\ IF YieldsNothing(call.case_info)
           THEN /\ mkdirs = <<>>
                /\ launches[1].call.cwd = call.uploaded_path
                /\ launches[1].call.env.IRIS_E01_OUTPUT_DIR = <<>>
                /\ call.case_info.build_fails => Logged(OutputDirError)
           ELSE /\ ~Falsy(launches[1].call.cwd)
                /\ mkdirs = <<launches[1].call.cwd>>
                /\ launches[1].call.env.IRIS_E01_OUTPUT_DIR = launches[1].call.cwd
                /\ ~Logged(OutputDirError)

\* the path construction raised and no uploads root is configured: the child
\* was started in the inherited directory with an empty IRIS_E01_OUTPUT_DIR
C11_Witness ==
    /\ call.op = "launch_resolved"
    /\ call.case_info.build_fails
    /\ call.uploaded_path = None
    /\ Logged(OutputDirError)
    /\ Len(launches) = 1
    /\ launches[1].call.started
    /\ launches[1].call.cwd = None
    /\ launches[1].call.env.IRIS_E01_OUTPUT_DIR = <<>>

====
